---- MODULE Spec2Model ----
(***************************************************************************)
(* Model of src/src/bitbox02.js: the BitBox02API client (one instance),    *)
(* the websockets it creates, the promise returned by every connect(),     *)
(* the firmware handle and the device discovery loop getDevicePath().      *)
(*                                                                         *)
(* The firmware library is opaque: what Status() and Attestation() return  *)
(* when the code reads them, which events a handle delivers and how the    *)
(* Async* calls settle are inputs of the steps.                            *)
(*                                                                         *)
(* User callbacks (showPairingCb, setStatusCb, handleAttestationCb,        *)
(* onCloseCb) are recorded, they return normally and do not call back into *)
(* the API ("Must not block", lines 79-83).                                *)
(***************************************************************************)
EXTENDS Integers, Sequences, FiniteSets, TLC

\* ---------------------------------------------------------------- bounds
\* Number of connect() calls made on the instance.
MaxConnects == 2

\* Most devices a bridge response lists.
MaxDevices == 2

Flows == 1..MaxConnects

\* ------------------------------------------------------------- constants
\* constants.Status of the firmware library. "Connected" is the status of a
\* fresh handle and stands for every status the code does not name.
Status == {"Connected", "Unpaired", "PairingFailed", "Uninitialized",
           "Initialized", "RequireFirmwareUpgrade", "RequireAppUpgrade"}

\* constants.Event of the firmware library ("ChannelHashChanged" is an event
\* kind the handler does not name).
Event == {"StatusChanged", "AttestationCheckDone", "ChannelHashChanged"}

\* Rejection reasons of the connect() promise.
NotConnected == "Error: Device or websocket not connected"
PairingRejected == "Error: Pairing rejected"
UnexpectedStatus == "Error: Unexpected status"
Busy == "Your BitBox02 is busy"
FirmwareUpgradeRequired == "Firmware upgrade required"
UnsupportedFirmware == "Unsupported firmware"
UninitializedReason == "Uninitialized"
FirmwareError == "firmware error"
UserVerifyError == "userVerify rejected"

VARIABLES
    opened,        \* this.opened
    socket,        \* this.socket: 0 is undefined, k the websocket of the k-th connect()
    fw,            \* this.fw: 0 is undefined, k the handle created by the k-th onopen
    readyState,    \* readyState of every websocket ("NONE": not created)
    promise,       \* the promise returned by the k-th connect()
    pc,            \* where the k-th onopen handler is
    handler,       \* whether SetOnEvent installed the k-th handler on its handle
    statusRead,    \* the status the k-th onopen read after AsyncInit ("none": not read)
    userVerify,    \* the promise returned by userVerify() in the k-th onopen
    hashVerify,    \* the AsyncChannelHashVerify(true) call of the k-th onopen
    onCloseCalls,  \* calls of the k-th onCloseCb
    last           \* the last step: its inputs, what it found, returned and called

connVars == <<opened, socket, fw, readyState, promise, pc, handler, statusRead,
              userVerify, hashVerify, onCloseCalls, last>>

\* getDevicePath() (one call)
VARIABLES
    gdpPc,         \* "loop", "fetch", "json", "sleep", "returned" or "thrown"
    i,             \* the loop counter
    requests,      \* GET requests issued
    sleptMs,       \* milliseconds slept (completed sleeps)
    devices,       \* the devices of the last response body parsed
    nonSingle,     \* responses parsed that did not list exactly one device
    result         \* the path returned, or the message of the error thrown

gdpVars == <<gdpPc, i, requests, sleptMs, devices, nonSingle, result>>

\* One call of a device method (btc*, eth*) on the instance
VARIABLES
    mName,         \* the method called ("none": no call yet)
    mPc,           \* "idle", "await" (a firmware call), "getName" or "done"
    mPromise,      \* the promise the method returned: its state and value
    fwCalls,       \* the Async* calls made on the firmware handle, in order
    getName,       \* the getName() call: its state and the name it resolved with
    outputsIn,     \* the outputs array as the caller passed it
    outputs        \* the caller's outputs array now

devVars == <<mName, mPc, mPromise, fwCalls, getName, outputsIn, outputs>>

vars == <<connVars, gdpVars, devVars>>

\* ---------------------------------------------------------------- helpers
\* The record of a step. valid: connectionValid() when the step began;
\* settled: whether the promise of its connect() had settled before; status
\* and att: what the step read from the firmware handle ("none": not read).
Op(name) == [op |-> name, flow |-> 0, ev |-> "none", valid |-> FALSE,
             settled |-> FALSE, status |-> "none", att |-> "none", cbs |-> <<>>,
             ret |-> "none", threw |-> FALSE]

Call(cb, arg) == [cb |-> cb, arg |-> arg]

\* resolve()/reject() of a promise: the first settlement wins.
Settle(p, v) == IF p = "pending" THEN v ELSE p

\* WebSocket.close(): a socket that is CONNECTING or OPEN becomes CLOSING.
SocketClose(rs, s) ==
    IF rs[s] \in {"CONNECTING", "OPEN"} THEN [rs EXCEPT ![s] = "CLOSING"] ELSE rs

\* connectionValid() evaluated on a readyState map (the handlers change it).
ValidIn(rs) == opened /\ socket # 0 /\ rs[socket] = "OPEN"

connectionValidNotClosed == opened /\ socket # 0 /\ readyState[socket] # "CLOSED"

\* connectionValid(): this.opened && this.socket.readyState == WebSocket.OPEN
connectionValid == opened /\ socket # 0 /\ readyState[socket] = "OPEN"

\* connectionValid() throws a TypeError when it reads readyState of an
\* undefined this.socket.
connectionValidThrows == opened /\ socket = 0

\* firmware() (lines 396-401) throws when the connection is not valid,
firmwareThrows == ~connectionValid

\* and returns this.fw otherwise (0 is undefined).
firmware == fw

ConnInit ==
    /\ opened = FALSE
    /\ socket = 0
    /\ fw = 0
    /\ readyState = [k \in Flows |-> "NONE"]
    /\ promise = [k \in Flows |-> "none"]
    /\ pc = [k \in Flows |-> "none"]
    /\ handler = [k \in Flows |-> FALSE]
    /\ statusRead = [k \in Flows |-> "none"]
    /\ userVerify = [k \in Flows |-> "none"]
    /\ hashVerify = [k \in Flows |-> "none"]
    /\ onCloseCalls = [k \in Flows |-> 0]
    /\ last = Op("none")

GdpInit ==
    /\ gdpPc = "loop"
    /\ i = 0
    /\ requests = 0
    /\ sleptMs = 0
    /\ devices = <<>>
    /\ nonSingle = 0
    /\ result = "none"

\* A value of the program: undefined, a firmware result, a firmware error
\* object (with its Message, and whether IsErrorAbort holds for it), a
\* JavaScript Error (with its message) or a signature result {r, s, v}.
Val(kind, msg, abort) == [kind |-> kind, msg |-> msg, abort |-> abort]

Undefined == Val("undefined", "", FALSE)

DevInit ==
    /\ mName = "none"
    /\ mPc = "idle"
    /\ mPromise = [state |-> "none", value |-> Undefined]
    /\ fwCalls = <<>>
    /\ getName = [state |-> "none", name |-> ""]
    /\ outputsIn = <<>>
    /\ outputs = <<>>

Init == ConnInit /\ GdpInit /\ DevInit

\* ------------------------------------------------------------- connect()
\* Lines 86-99: sets this.opened, creates the websocket (never closing an
\* earlier one) and returns a new pending promise.
connect ==
    /\ socket < MaxConnects
    /\ opened' = TRUE
    /\ socket' = socket + 1
    /\ readyState' = [readyState EXCEPT ![socket + 1] = "CONNECTING"]
    /\ promise' = [promise EXCEPT ![socket + 1] = "pending"]
    /\ pc' = [pc EXCEPT ![socket + 1] = "connecting"]
    /\ last' = [Op("connect") EXCEPT !.flow = socket + 1]
    /\ UNCHANGED <<fw, handler, statusRead, userVerify, hashVerify, onCloseCalls,
                   gdpVars, devVars>>

\* ------------------------------------------------------ socket.onopen
\* Lines 100-136: the websocket opens; api.New creates a handle, the first
\* self.firmware() throws when the connection is not valid (the catch rejects),
\* otherwise the event handler is installed and AsyncInit() is called.
onopen(k) ==
    /\ readyState[k] = "CONNECTING"
    /\ LET rs == [readyState EXCEPT ![k] = "OPEN"]
       IN /\ readyState' = rs
          /\ fw' = k
          /\ IF ValidIn(rs)
             THEN /\ handler' = [handler EXCEPT ![k] = TRUE]
                  /\ pc' = [pc EXCEPT ![k] = "AsyncInit"]
                  /\ UNCHANGED promise
             ELSE /\ promise' = [promise EXCEPT ![k] = Settle(@, NotConnected)]
                  /\ pc' = [pc EXCEPT ![k] = "done"]
                  /\ UNCHANGED handler
          /\ last' = [Op("onopen") EXCEPT !.flow = k]
    /\ UNCHANGED <<opened, socket, statusRead, userVerify, hashVerify, onCloseCalls,
                   gdpVars, devVars>>

\* --------------------------------------------- SetOnEvent handler (111-134)
\* The handler threads h = [rs, pr, cbs, threw]: the sockets, the promise of
\* its connect(), the callbacks called so far and whether it has thrown.
\* Every `if` that is about the event's kind reads the handle through
\* self.firmware(), which throws when the connection is not valid.

\* if (ev === StatusChanged && self.firmware()) setStatusCb(Status())
If112(h, ev, st) ==
    IF h.threw \/ ev # "StatusChanged" THEN h
    ELSE IF ~ValidIn(h.rs) THEN [h EXCEPT !.threw = TRUE]
    ELSE [h EXCEPT !.cbs = Append(@, Call("setStatusCb", st))]

If115ShowPairingAlways(h, ev, st) ==
    IF h.threw \/ ev # "StatusChanged" THEN h
    ELSE IF ~ValidIn(h.rs) THEN [h EXCEPT !.threw = TRUE]
    ELSE [h EXCEPT !.cbs = Append(@, Call("showPairingCb", "channelHash"))]

\* if (ev === StatusChanged && Status() === Unpaired) showPairingCb(channelHash)
If115(h, ev, st) ==
    IF h.threw \/ ev # "StatusChanged" THEN h
    ELSE IF ~ValidIn(h.rs) THEN [h EXCEPT !.threw = TRUE]
    ELSE IF st = "Unpaired"
         THEN [h EXCEPT !.cbs = Append(@, Call("showPairingCb", "channelHash"))]
         ELSE h

\* if (ev === AttestationCheckDone) handleAttestationCb(Attestation())
If119(h, ev, att) ==
    IF h.threw \/ ev # "AttestationCheckDone" THEN h
    ELSE IF ~ValidIn(h.rs) THEN [h EXCEPT !.threw = TRUE]
    ELSE [h EXCEPT !.cbs = Append(@, Call("handleAttestationCb", att))]

IfFatalNoReject(h, ev, st, fatal, reason) ==
    IF h.threw \/ ev # "StatusChanged" THEN h
    ELSE IF ~ValidIn(h.rs) THEN [h EXCEPT !.threw = TRUE]
    ELSE IF st = fatal
         THEN [h EXCEPT !.rs = SocketClose(@, socket)]
         ELSE h

\* if (ev === StatusChanged && Status() === fatal) { socket.close(); reject(reason) }
\* (lines 122-125, 126-129 and 130-133)
IfFatal(h, ev, st, fatal, reason) ==
    IF h.threw \/ ev # "StatusChanged" THEN h
    ELSE IF ~ValidIn(h.rs) THEN [h EXCEPT !.threw = TRUE]
    ELSE IF st = fatal
         THEN [h EXCEPT !.rs = SocketClose(@, socket), !.pr = Settle(@, reason)]
         ELSE h

OnEvent(h, ev, st, att) ==
    LET h1 == If112(h, ev, st)
        h2 == If115(h1, ev, st)
        h3 == If119(h2, ev, att)
        h4 == IfFatal(h3, ev, st, "RequireFirmwareUpgrade", FirmwareUpgradeRequired)
        h5 == IfFatal(h4, ev, st, "RequireAppUpgrade", UnsupportedFirmware)
    IN IfFatal(h5, ev, st, "Uninitialized", UninitializedReason)

\* The firmware handle created by the k-th onopen delivers event ev. st is
\* the status the handle has come to (what self.firmware().Status() returns
\* while the handler runs) and att what self.firmware().Attestation() returns;
\* they are fixed for the events that are not about them.
FirmwareEvent(k, ev, st, att) ==
    /\ handler[k]
    /\ (ev # "StatusChanged") => st = "Connected"
    /\ (ev # "AttestationCheckDone") => att = "true"
    /\ LET h0 == [rs |-> readyState, pr |-> promise[k], cbs |-> <<>>, threw |-> FALSE]
           h == OnEvent(h0, ev, st, att)
       IN /\ readyState' = h.rs
          /\ promise' = [promise EXCEPT ![k] = h.pr]
          /\ last' = [Op("event") EXCEPT !.flow = k, !.ev = ev,
                         !.valid = connectionValid,
                         !.settled = (promise[k] # "pending"),
                         !.status = IF ev = "StatusChanged" /\ connectionValid
                                    THEN st ELSE "none",
                         !.att = IF ev = "AttestationCheckDone" /\ connectionValid
                                 THEN att ELSE "none",
                         !.cbs = h.cbs, !.threw = h.threw]
    /\ UNCHANGED <<opened, socket, fw, pc, handler, statusRead, userVerify,
                   hashVerify, onCloseCalls,
                   gdpVars, devVars>>

\* ------------------------------------------- after AsyncInit (136-155)
SwitchNoDefault(st) ==
    CASE st = "PairingFailed" -> "PairingRejected"
      [] st = "Unpaired" -> "userVerify"
      [] OTHER -> "resolve"

SwitchInitializedVerifies(st) ==
    CASE st = "PairingFailed" -> "PairingRejected"
      [] st \in {"Unpaired", "Initialized"} -> "userVerify"
      [] OTHER -> "Unexpected"

\* switch (self.firmware().Status()), lines 137-150
Switch(st) ==
    CASE st = "PairingFailed" -> "PairingRejected"
      [] st = "Unpaired" -> "userVerify"
      [] st = "Initialized" -> "resolve"
      [] OTHER -> "Unexpected"

\* AsyncInit() settles. A failure is caught and rejects the promise; after a
\* success the status st is read through self.firmware(), which throws (and
\* the catch rejects) when the connection is not valid.
AsyncInitDone(k, ok, st) ==
    /\ pc[k] = "AsyncInit"
    /\ (~ok \/ ~connectionValid) => st = "Connected"
    /\ last' = [Op("AsyncInitDone") EXCEPT !.flow = k, !.valid = connectionValid,
                   !.settled = (promise[k] # "pending"),
                   !.status = IF ok /\ connectionValid THEN st ELSE "none",
                   !.ret = IF ok THEN "ok" ELSE "error"]
    /\ IF ~ok
       THEN /\ promise' = [promise EXCEPT ![k] = Settle(@, FirmwareError)]
            /\ pc' = [pc EXCEPT ![k] = "done"]
            /\ UNCHANGED <<readyState, statusRead, userVerify>>
       ELSE IF ~connectionValid
       THEN /\ promise' = [promise EXCEPT ![k] = Settle(@, NotConnected)]
            /\ pc' = [pc EXCEPT ![k] = "done"]
            /\ UNCHANGED <<readyState, statusRead, userVerify>>
       ELSE /\ statusRead' = [statusRead EXCEPT ![k] = st]
            /\ CASE Switch(st) = "PairingRejected" ->
                      /\ readyState' = SocketClose(readyState, socket)
                      /\ promise' = [promise EXCEPT ![k] = Settle(@, PairingRejected)]
                      /\ pc' = [pc EXCEPT ![k] = "done"]
                      /\ UNCHANGED userVerify
                 [] Switch(st) = "userVerify" ->
                      /\ userVerify' = [userVerify EXCEPT ![k] = "pending"]
                      /\ pc' = [pc EXCEPT ![k] = "userVerify"]
                      /\ UNCHANGED <<readyState, promise>>
                 [] Switch(st) = "resolve" ->
                      /\ promise' = [promise EXCEPT ![k] = Settle(@, "resolved")]
                      /\ pc' = [pc EXCEPT ![k] = "done"]
                      /\ UNCHANGED <<readyState, userVerify>>
                 [] OTHER ->
                      /\ promise' = [promise EXCEPT ![k] = Settle(@, UnexpectedStatus)]
                      /\ pc' = [pc EXCEPT ![k] = "done"]
                      /\ UNCHANGED <<readyState, userVerify>>
    /\ UNCHANGED <<opened, socket, fw, handler, hashVerify, onCloseCalls,
                   gdpVars, devVars>>

\* await userVerify() settles (line 142). Once it resolved,
\* self.firmware().js.AsyncChannelHashVerify(true) is called (line 143);
\* self.firmware() throws when the connection is not valid.
UserVerifyDone(k, ok) ==
    /\ pc[k] = "userVerify"
    /\ last' = [Op("userVerifyDone") EXCEPT !.flow = k, !.valid = connectionValid,
                   !.ret = IF ok THEN "ok" ELSE "error"]
    /\ userVerify' = [userVerify EXCEPT ![k] = IF ok THEN "resolved" ELSE "rejected"]
    /\ IF ~ok
       THEN /\ promise' = [promise EXCEPT ![k] = Settle(@, UserVerifyError)]
            /\ pc' = [pc EXCEPT ![k] = "done"]
            /\ UNCHANGED hashVerify
       ELSE IF ~connectionValid
       THEN /\ promise' = [promise EXCEPT ![k] = Settle(@, NotConnected)]
            /\ pc' = [pc EXCEPT ![k] = "done"]
            /\ UNCHANGED hashVerify
       ELSE /\ hashVerify' = [hashVerify EXCEPT ![k] = "sent"]
            /\ pc' = [pc EXCEPT ![k] = "AsyncChannelHashVerify"]
            /\ UNCHANGED promise
    /\ UNCHANGED <<opened, socket, fw, readyState, handler, statusRead, onCloseCalls,
                   gdpVars, devVars>>

\* await AsyncChannelHashVerify(true) settles (lines 143-144, 152-155).
ChannelHashVerifyDone(k, ok) ==
    /\ pc[k] = "AsyncChannelHashVerify"
    /\ last' = [Op("AsyncChannelHashVerifyDone") EXCEPT !.flow = k,
                   !.ret = IF ok THEN "ok" ELSE "error"]
    /\ hashVerify' = [hashVerify EXCEPT ![k] = IF ok THEN "ok" ELSE "error"]
    /\ promise' = [promise EXCEPT
                     ![k] = Settle(@, IF ok THEN "resolved" ELSE FirmwareError)]
    /\ pc' = [pc EXCEPT ![k] = "done"]
    /\ UNCHANGED <<opened, socket, fw, readyState, handler, statusRead, userVerify,
                   onCloseCalls,
                   gdpVars, devVars>>

\* ------------------------------------------------- websocket (157-165)
\* The connection fails: the socket is CLOSED, then onerror rejects and onclose
\* calls onCloseCb.
onerror(k) ==
    /\ readyState[k] \in {"CONNECTING", "OPEN"}
    /\ readyState' = [readyState EXCEPT ![k] = "CLOSED"]
    /\ promise' = [promise EXCEPT ![k] = Settle(@, Busy)]
    /\ onCloseCalls' = [onCloseCalls EXCEPT ![k] = @ + 1]
    /\ last' = [Op("onerror") EXCEPT !.flow = k, !.settled = (promise[k] # "pending")]
    /\ UNCHANGED <<opened, socket, fw, pc, handler, statusRead, userVerify, hashVerify,
                   gdpVars, devVars>>

\* The connection is closed (by the bridge, or the closing handshake ends):
\* onclose calls onCloseCb.
onclose(k) ==
    /\ readyState[k] \in {"OPEN", "CLOSING"}
    /\ readyState' = [readyState EXCEPT ![k] = "CLOSED"]
    /\ onCloseCalls' = [onCloseCalls EXCEPT ![k] = @ + 1]
    /\ last' = [Op("onclose") EXCEPT !.flow = k]
    /\ UNCHANGED <<opened, socket, fw, promise, pc, handler, statusRead, userVerify,
                   hashVerify,
                   gdpVars, devVars>>

\* ---------------------------------------------------------------- close()
closeWithoutCheck ==
    /\ readyState' = IF socket = 0 THEN readyState ELSE SocketClose(readyState, socket)
    /\ last' = [Op("close") EXCEPT !.valid = connectionValid, !.ret = "true"]
    /\ UNCHANGED <<opened, socket, fw, promise, pc, handler, statusRead, userVerify,
                   hashVerify, onCloseCalls,
                   gdpVars, devVars>>

\* close() (lines 384-390)
close ==
    /\ IF ~connectionValid
       THEN /\ UNCHANGED readyState
            /\ last' = [Op("close") EXCEPT !.valid = FALSE, !.ret = "false"]
       ELSE /\ readyState' = SocketClose(readyState, socket)
            /\ last' = [Op("close") EXCEPT !.valid = TRUE, !.ret = "true"]
    /\ UNCHANGED <<opened, socket, fw, promise, pc, handler, statusRead, userVerify,
                   hashVerify, onCloseCalls,
                   gdpVars, devVars>>

Next ==
    \/ connect
    \/ \E k \in Flows : onopen(k)
    \/ \E k \in Flows, ev \in Event, st \in Status, att \in {"true", "false"} :
          FirmwareEvent(k, ev, st, att)
    \/ \E k \in Flows, ok \in BOOLEAN, st \in Status : AsyncInitDone(k, ok, st)
    \/ \E k \in Flows, ok \in BOOLEAN : UserVerifyDone(k, ok)
    \/ \E k \in Flows, ok \in BOOLEAN : ChannelHashVerifyDone(k, ok)
    \/ \E k \in Flows : onerror(k)
    \/ \E k \in Flows : onclose(k)
    \/ close

Spec == Init /\ [][Next]_vars

\* ------------------------------------------------ getDevicePath() (15-44)
\* const attempts = 10 (line 16)
attempts == 10

\* sleep(100) (line 37)
SleepMs == 100

\* Device paths a bridge may report.
Paths == {"/dev/hidraw0", "/dev/hidraw1"}

\* The `devices` arrays of a response body: up to MaxDevices {path: ...} objects.
DeviceLists == UNION {[1..n -> [path : Paths]] : n \in 0..MaxDevices}

\* What fetch() settles with: a rejection, or a response with an HTTP status.
FetchOutcomes == {"rejected", "200", "403", "500"}

\* response.ok: the status is in 200..299
ResponseOk(outcome) == outcome = "200"

LoopContinuesInclusive(n) == n <= attempts

\* i < attempts (line 17)
LoopContinues(n) == n < attempts

SingleOrMore(ds) == Len(ds) >= 1

\* devices.length !== 1 is false (line 36)
ExactlyOne(ds) == Len(ds) = 1

\* Line 17 and 21: the loop goes on and a GET request is issued.
GdpFetch ==
    /\ gdpPc = "loop"
    /\ LoopContinues(i)
    /\ requests' = requests + 1
    /\ gdpPc' = "fetch"
    /\ UNCHANGED <<i, sleptMs, devices, nonSingle, result, connVars, devVars>>

\* Line 43: the loop is over.
GdpGiveUp ==
    /\ gdpPc = "loop"
    /\ ~LoopContinues(i)
    /\ gdpPc' = "thrown"
    /\ result' = "Expected one BitBox02"
    /\ UNCHANGED <<i, requests, sleptMs, devices, nonSingle, connVars, devVars>>

GdpFetchSettlesRetries(outcome) ==
    /\ gdpPc = "fetch"
    /\ IF outcome = "rejected"
       THEN gdpPc' = "loop" /\ UNCHANGED result
       ELSE IF ~ResponseOk(outcome) /\ outcome = "403"
       THEN gdpPc' = "thrown" /\ result' = "Origin not whitelisted"
       ELSE IF ~ResponseOk(outcome)
       THEN gdpPc' = "thrown" /\ result' = "Unexpected"
       ELSE gdpPc' = "json" /\ UNCHANGED result
    /\ UNCHANGED <<i, requests, sleptMs, devices, nonSingle, connVars, devVars>>

\* Lines 21-35: fetch() settles. Whatever is thrown in the try block is caught
\* and rethrown with errorMessage, or 'BitBoxBridge not found' when it is unset;
\* a response that is ok has its body read.
GdpFetchSettles(outcome) ==
    /\ gdpPc = "fetch"
    /\ IF outcome = "rejected"
       THEN gdpPc' = "thrown" /\ result' = "BitBoxBridge not found"
       ELSE IF ~ResponseOk(outcome) /\ outcome = "403"
       THEN gdpPc' = "thrown" /\ result' = "Origin not whitelisted"
       ELSE IF ~ResponseOk(outcome)
       THEN gdpPc' = "thrown" /\ result' = "Unexpected"
       ELSE gdpPc' = "json" /\ UNCHANGED result
    /\ UNCHANGED <<i, requests, sleptMs, devices, nonSingle, connVars, devVars>>

\* Line 35: the body is no JSON, or has no devices array: the error is not
\* caught.
GdpBodyMalformed ==
    /\ gdpPc = "json"
    /\ gdpPc' = "thrown"
    /\ result' = "malformed body"
    /\ UNCHANGED <<i, requests, sleptMs, devices, nonSingle, connVars, devVars>>

\* Lines 35-41: the body is parsed; one device is returned, anything else
\* starts the sleep.
GdpJsonSettles(ds) ==
    /\ gdpPc = "json"
    /\ devices' = ds
    /\ IF ~ExactlyOne(ds)
       THEN gdpPc' = "sleep" /\ nonSingle' = nonSingle + 1 /\ UNCHANGED result
       ELSE gdpPc' = "returned" /\ result' = ds[1].path /\ UNCHANGED nonSingle
    /\ UNCHANGED <<i, requests, sleptMs, connVars, devVars>>

\* Lines 37-38 and the i++ of line 17: the sleep is over, the loop goes on.
GdpSleepDone ==
    /\ gdpPc = "sleep"
    /\ sleptMs' = sleptMs + SleepMs
    /\ i' = i + 1
    /\ gdpPc' = "loop"
    /\ UNCHANGED <<requests, devices, nonSingle, result, connVars, devVars>>

GdpNext ==
    \/ GdpFetch
    \/ GdpGiveUp
    \/ \E outcome \in FetchOutcomes : GdpFetchSettles(outcome)
    \/ GdpBodyMalformed
    \/ \E ds \in DeviceLists : GdpJsonSettles(ds)
    \/ GdpSleepDone

GdpSpec == Init /\ [][GdpNext]_vars

\* fetch(), response.json() and the timer of sleep() settle, and the event loop
\* runs the continuation.
GdpFairSpec == GdpSpec /\ WF_vars(GdpNext)

\* ------------------------------------------- device methods (169-372)
\* The helpers of utils.js (getKeypathFromString, getCoinFromKeypath,
\* getCoinFromChainId) are taken to return. A firmware call settles with any
\* outcome at any time, whatever happens to the websocket meanwhile.

\* Most outputs in the array handed to a sign method.
MaxOutputs == 2

\* The fields of an output object: "value" stands for every field other than
\* type, hash and keypath.
OutFields == {"type", "hash", "keypath", "value"}

\* An output object as the caller builds it: any of the fields, each with the
\* caller's value.
Outputs == UNION {[S -> {"caller"}] : S \in SUBSET OutFields}

OutputLists == UNION {[1..n -> Outputs] : n \in 0..MaxOutputs}

\* The first argument of Object.assign at lines 64-68.
OutputDefaults == [type |-> "0", hash |-> "Uint8Array(0)", keypath |-> "[]"]

\* Object.assign(target, source): the own properties of source are copied
\* over those of target.
ObjectAssign(target, source) ==
    [f \in (DOMAIN target) \cup (DOMAIN source) |->
        IF f \in DOMAIN source THEN source[f] ELSE target[f]]

setOutputDefaultsOverwrites(outs) ==
    [n \in 1..Len(outs) |-> ObjectAssign(outs[n], OutputDefaults)]

\* setOutputDefaults (lines 60-70): every element is replaced in place.
setOutputDefaults(outs) ==
    [n \in 1..Len(outs) |-> ObjectAssign(OutputDefaults, outs[n])]

\* The error objects a firmware call fails with.
FwErrors == {Val("fwerror", "aborted by the user", TRUE),
             Val("fwerror", "generic error", FALSE)}

\* What a firmware call succeeds with: AsyncBTCIsScriptConfigRegistered gives
\* a boolean, any other call a result of its own.
ResultsOf(fn) ==
    IF fn = "AsyncBTCIsScriptConfigRegistered"
    THEN {Val("result", "true", FALSE), Val("result", "false", FALSE)}
    ELSE {Val("result", fn, FALSE)}

\* The names getName() resolves with.
Names == {"Account A", "Account B"}

\* api.IsErrorAbort(err): true for the abort errors of the firmware library;
\* an Error of JavaScript is none of them.
IsErrorAbort(err) == err.kind = "fwerror" /\ err.abort

\* err.Message: a firmware error carries it, an Error of JavaScript has
\* `message` and no `Message`.
Message(err) == IF err.kind = "fwerror" THEN err.msg ELSE "undefined"

\* new Error(msg): the message of new Error(undefined) is empty.
NewError(msg) == Val("Error", IF msg = "undefined" THEN "" ELSE msg, FALSE)

\* The Error thrown by firmware() (line 398).
NotConnectedError == NewError("Device or websocket not connected")

\* The TypeError of reading `js` of an undefined this.fw (line 319).
FwUndefinedError == NewError("Cannot read properties of undefined")

Pending == [state |-> "pending", value |-> Undefined]
Resolved(v) == [state |-> "resolved", value |-> v]
Rejected(v) == [state |-> "rejected", value |-> v]

\* A call fn(...) on the firmware handle; outs: the outputs array passed,
\* name: the account name passed.
FwCall(fn, outs, name) ==
    [fn |-> fn, outs |-> outs, name |-> name, state |-> "pending",
     value |-> Undefined]

CatchRethrowsAsIs(err) == err

\* The catch blocks of ethSignTransaction and ethSignMessage (336-342, 365-371).
Catch(err) ==
    IF IsErrorAbort(err) THEN NewError("User abort") ELSE NewError(Message(err))

\* The result built from the signature (lines 329-335, 359-364).
Rsv(sig) == Val("rsv", sig.msg, FALSE)

\* `return this.firmware().js.fn(...)` in an async method: firmware() throwing
\* rejects the method's promise, otherwise the promise follows the call.
ReturnsFirmwareCall(m, fn, outs) ==
    /\ mPc = "idle"
    /\ mName' = m
    /\ IF firmwareThrows
       THEN /\ mPromise' = Rejected(NotConnectedError)
            /\ mPc' = "done"
            /\ UNCHANGED fwCalls
       ELSE /\ fwCalls' = Append(fwCalls, FwCall(fn, outs, ""))
            /\ mPromise' = Pending
            /\ mPc' = "await"
    /\ UNCHANGED <<getName, connVars, gdpVars>>

\* Lines 177-179
btcXPub ==
    /\ ReturnsFirmwareCall("btcXPub", "AsyncBTCXPub", <<>>)
    /\ UNCHANGED <<outputsIn, outputs>>

\* Lines 187-195
btcDisplayAddressSimple ==
    /\ ReturnsFirmwareCall("btcDisplayAddressSimple", "AsyncBTCAddressSimple", <<>>)
    /\ UNCHANGED <<outputsIn, outputs>>

\* Lines 208-226: the outputs are normalised in place, then handed over.
btcSignSimple(outs) ==
    /\ mPc = "idle"
    /\ outputsIn' = outs
    /\ outputs' = setOutputDefaults(outs)
    /\ ReturnsFirmwareCall("btcSignSimple", "AsyncBTCSignSimple",
                           setOutputDefaults(outs))

\* Lines 246-253
btcDisplayAddressMultisig ==
    /\ ReturnsFirmwareCall("btcDisplayAddressMultisig", "AsyncBTCAddressMultisig", <<>>)
    /\ UNCHANGED <<outputsIn, outputs>>

\* Lines 260-274
btcSignMultisig(outs) ==
    /\ mPc = "idle"
    /\ outputsIn' = outs
    /\ outputs' = setOutputDefaults(outs)
    /\ ReturnsFirmwareCall("btcSignMultisig", "AsyncBTCSignMultisig",
                           setOutputDefaults(outs))

\* Lines 281-292: the call is awaited and its result returned.
ethGetRootPubKey ==
    /\ ReturnsFirmwareCall("ethGetRootPubKey", "AsyncETHPub", <<>>)
    /\ UNCHANGED <<outputsIn, outputs>>

\* Lines 234-235: the device is asked whether the account is registered.
btcMaybeRegisterScriptConfig ==
    /\ ReturnsFirmwareCall("btcMaybeRegisterScriptConfig",
                           "AsyncBTCIsScriptConfigRegistered", <<>>)
    /\ UNCHANGED <<outputsIn, outputs>>

\* Lines 298-310: the call is made and neither awaited nor returned; the
\* method's promise resolves with undefined when the body ends.
ethDisplayAddress ==
    /\ mPc = "idle"
    /\ mName' = "ethDisplayAddress"
    /\ IF firmwareThrows
       THEN /\ mPromise' = Rejected(NotConnectedError)
            /\ UNCHANGED fwCalls
       ELSE /\ fwCalls' = Append(fwCalls, FwCall("AsyncETHPub", <<>>, ""))
            /\ mPromise' = Resolved(Undefined)
    /\ mPc' = "done"
    /\ UNCHANGED <<getName, outputsIn, outputs, connVars, gdpVars>>

\* Lines 317-328: this.fw is used without firmware(); reading `js` of an
\* undefined this.fw throws inside the try block.
ethSignTransaction ==
    /\ mPc = "idle"
    /\ mName' = "ethSignTransaction"
    /\ IF fw = 0
       THEN /\ mPromise' = Rejected(Catch(FwUndefinedError))
            /\ mPc' = "done"
            /\ UNCHANGED fwCalls
       ELSE /\ fwCalls' = Append(fwCalls, FwCall("AsyncETHSign", <<>>, ""))
            /\ mPromise' = Pending
            /\ mPc' = "await"
    /\ UNCHANGED <<getName, outputsIn, outputs, connVars, gdpVars>>

\* Lines 350-357: firmware() throws inside the try block.
ethSignMessage ==
    /\ mPc = "idle"
    /\ mName' = "ethSignMessage"
    /\ IF firmwareThrows
       THEN /\ mPromise' = Rejected(Catch(NotConnectedError))
            /\ mPc' = "done"
            /\ UNCHANGED fwCalls
       ELSE /\ fwCalls' = Append(fwCalls, FwCall("AsyncETHSignMessage", <<>>, ""))
            /\ mPromise' = Pending
            /\ mPc' = "await"
    /\ UNCHANGED <<getName, outputsIn, outputs, connVars, gdpVars>>

IsRegisteredSettlesAlwaysAsks(ok, v) ==
    IF ~ok
    THEN mPromise' = Rejected(v) /\ mPc' = "done" /\ UNCHANGED getName
    ELSE IF firmwareThrows
    THEN mPromise' = Rejected(NotConnectedError) /\ mPc' = "done"
         /\ UNCHANGED getName
    ELSE getName' = [state |-> "pending", name |-> ""] /\ mPc' = "getName"
         /\ UNCHANGED mPromise

\* Lines 235-237: AsyncBTCIsScriptConfigRegistered has settled. A registered
\* account ends the method; otherwise this.firmware() is evaluated, then
\* getName() is called and awaited.
IsRegisteredSettles(ok, v) ==
    IF ~ok
    THEN mPromise' = Rejected(v) /\ mPc' = "done" /\ UNCHANGED getName
    ELSE IF v.msg = "true"
    THEN mPromise' = Resolved(Undefined) /\ mPc' = "done" /\ UNCHANGED getName
    ELSE IF firmwareThrows
    THEN mPromise' = Rejected(NotConnectedError) /\ mPc' = "done"
         /\ UNCHANGED getName
    ELSE getName' = [state |-> "pending", name |-> ""] /\ mPc' = "getName"
         /\ UNCHANGED mPromise

\* promisify (lines 46-58): the n-th firmware call completes, with a result
\* or an error, and the method awaiting it goes on.
FirmwareCallSettles(n, ok, v) ==
    /\ n \in 1..Len(fwCalls)
    /\ fwCalls[n].state = "pending"
    /\ v \in (IF ok THEN ResultsOf(fwCalls[n].fn) ELSE FwErrors)
    /\ fwCalls' = [fwCalls EXCEPT ![n].state = IF ok THEN "ok" ELSE "failed",
                                  ![n].value = v]
    /\ IF mPc # "await"
       THEN UNCHANGED <<mPc, mPromise, getName>>
       ELSE CASE fwCalls[n].fn = "AsyncBTCIsScriptConfigRegistered" ->
                     IsRegisteredSettles(ok, v)
              [] fwCalls[n].fn = "AsyncBTCRegisterScriptConfig" ->
                     /\ mPromise' = IF ok THEN Resolved(Undefined) ELSE Rejected(v)
                     /\ mPc' = "done"
                     /\ UNCHANGED getName
              [] mName \in {"ethSignTransaction", "ethSignMessage"} ->
                     /\ mPromise' = IF ok THEN Resolved(Rsv(v)) ELSE Rejected(Catch(v))
                     /\ mPc' = "done"
                     /\ UNCHANGED getName
              [] OTHER ->
                     /\ mPromise' = IF ok THEN Resolved(v) ELSE Rejected(v)
                     /\ mPc' = "done"
                     /\ UNCHANGED getName
    /\ UNCHANGED <<mName, outputsIn, outputs, connVars, gdpVars>>

\* Line 237: getName() settles; with a name, AsyncBTCRegisterScriptConfig is
\* called with it and awaited.
GetNameSettles(ok, name) ==
    /\ mPc = "getName"
    /\ IF ok
       THEN /\ getName' = [state |-> "resolved", name |-> name]
            /\ fwCalls' = Append(fwCalls,
                                 FwCall("AsyncBTCRegisterScriptConfig", <<>>, name))
            /\ mPc' = "await"
            /\ UNCHANGED mPromise
       ELSE /\ getName' = [state |-> "rejected", name |-> ""]
            /\ mPromise' = Rejected(NewError("getName rejected"))
            /\ mPc' = "done"
            /\ UNCHANGED fwCalls
    /\ UNCHANGED <<mName, outputsIn, outputs, connVars, gdpVars>>

AllResults ==
    UNION {ResultsOf(fn) : fn \in {"AsyncBTCIsScriptConfigRegistered",
        "AsyncBTCRegisterScriptConfig", "AsyncBTCXPub", "AsyncBTCAddressSimple",
        "AsyncBTCSignSimple", "AsyncBTCAddressMultisig", "AsyncBTCSignMultisig",
        "AsyncETHPub", "AsyncETHSign", "AsyncETHSignMessage"}}

\* The outputs array of the sign methods where its content plays no role.
SampleOutputLists == {<<[f \in {"value"} |-> "caller"]>>}

\* One device method call on an instance that is connected, or not, or not
\* any more: the websocket steps of the instance and the steps of the call.
DevNext ==
    \/ connect
    \/ \E k \in Flows : onopen(k)
    \/ \E k \in Flows : onclose(k)
    \/ close
    \/ btcXPub
    \/ btcDisplayAddressSimple
    \/ mPc = "idle" /\ \E outs \in SampleOutputLists : btcSignSimple(outs)
    \/ btcMaybeRegisterScriptConfig
    \/ btcDisplayAddressMultisig
    \/ mPc = "idle" /\ \E outs \in SampleOutputLists : btcSignMultisig(outs)
    \/ ethGetRootPubKey
    \/ ethDisplayAddress
    \/ ethSignTransaction
    \/ ethSignMessage
    \/ \E n \in 1..Len(fwCalls), ok \in BOOLEAN, v \in AllResults \cup FwErrors :
           FirmwareCallSettles(n, ok, v)
    \/ \E ok \in BOOLEAN, name \in Names : GetNameSettles(ok, name)

DevSpec == Init /\ [][DevNext]_vars

\* The sign methods called with every outputs array, on an instance that was
\* connected at most once and is connected, or not, or not any more.
SignNext ==
    \/ mPc = "idle" /\ socket = 0 /\ connect
    \/ mPc = "idle" /\ \E k \in Flows : onopen(k)
    \/ mPc = "idle" /\ \E k \in Flows : onclose(k)
    \/ mPc = "idle" /\ close
    \/ mPc = "idle" /\ \E outs \in OutputLists : btcSignSimple(outs)
    \/ mPc = "idle" /\ \E outs \in OutputLists : btcSignMultisig(outs)

SignSpec == Init /\ [][SignNext]_vars

\* ================================================================ claims

\* C1: the promise returned by connect() is resolved only after AsyncInit has
\* completed and the status read afterwards was Initialized, or Unpaired with
\* userVerify() resolved and AsyncChannelHashVerify(true) succeeded; it is never
\* resolved when the status read was PairingFailed or any other status.
C1_ResolvesOnlyOncePaired ==
    \A k \in Flows :
        promise[k] = "resolved" =>
            \/ statusRead[k] = "Initialized"
            \/ /\ statusRead[k] = "Unpaired"
               /\ userVerify[k] = "resolved"
               /\ hashVerify[k] = "ok"

C1_Witness ==
    \E k \in Flows :
        promise[k] = "resolved" /\ statusRead[k] = "Unpaired" /\ hashVerify[k] = "ok"

\* C2: AsyncChannelHashVerify(true) is called only after userVerify() has
\* resolved and only when the status read after AsyncInit was Unpaired; while
\* userVerify() is pending, and once it has rejected, the call is never made.
C2_HashVerifyOnlyAfterUserVerify ==
    \A k \in Flows :
        /\ hashVerify[k] # "none" =>
               statusRead[k] = "Unpaired" /\ userVerify[k] = "resolved"
        /\ userVerify[k] \in {"pending", "rejected"} => hashVerify[k] = "none"

C2_Witness ==
    \E k \in Flows : hashVerify[k] = "sent" /\ userVerify[k] = "resolved"

\* C3: at most one websocket created by the instance is in a state other than
\* CLOSED, and at most one pairing/initialization flow is outstanding.
C3_SingleConnection ==
    /\ Cardinality({k \in Flows :
                       readyState[k] \in {"CONNECTING", "OPEN", "CLOSING"}}) <= 1
    /\ Cardinality({k \in Flows : promise[k] = "pending"}) <= 1

\* C4: connectionValid() never throws, and is true exactly when connect() has
\* been called and the instance's websocket is OPEN (so false before any
\* connect(), while CONNECTING, and once CLOSING or CLOSED).
C4_ConnectionValidIffOpen ==
    /\ ~connectionValidThrows
    /\ connectionValid <=> (socket # 0 /\ readyState[socket] = "OPEN")

C4_Witness ==
    /\ connectionValid
    /\ readyState[socket] = "OPEN"
    /\ \E k \in Flows : readyState[k] = "CLOSED"

\* C5: a step of close() returns connectionValid(): false without touching any
\* socket when the connection is not valid, true after sending the instance's
\* websocket to CLOSING otherwise, and connectionValid() is false afterwards;
\* while no connect() replaces the websocket, a websocket that is CLOSING or
\* CLOSED stays not valid (so every further close() returns false).
C5_CloseContract ==
    [][ /\ close =>
            /\ last'.ret = (IF connectionValid THEN "true" ELSE "false")
            /\ ~connectionValid => readyState' = readyState
            /\ connectionValid =>
                   readyState' = [readyState EXCEPT ![socket] = "CLOSING"]
            /\ ~(opened' /\ socket' # 0 /\ readyState'[socket'] = "OPEN")
        /\ (socket # 0 /\ socket' = socket
                /\ readyState[socket] \in {"CLOSING", "CLOSED"}) =>
               ~(opened' /\ readyState'[socket'] = "OPEN")
      ]_vars

C5_Witness ==
    /\ last.op = "close"
    /\ last.ret = "true"
    /\ readyState[socket] = "CLOSING"

\* C6: firmware() returns undefined (it does not throw) when the connection is
\* not valid, and returns the handle created for the connection otherwise.
C6_FirmwareUndefinedWhenNotOpened ==
    /\ ~connectionValid => ~firmwareThrows
    /\ connectionValid => (~firmwareThrows /\ firmware # 0)

FatalEvent(st) ==
    /\ last.op = "event"
    /\ last.ev = "StatusChanged"
    /\ last.valid
    /\ last.status = st
    /\ ~last.settled

C8_EventCallbacks ==
    (last.op = "event" /\ last.valid) =>
        last.cbs =
            CASE last.ev = "StatusChanged" ->
                     IF last.status = "Unpaired"
                     THEN <<Call("setStatusCb", last.status),
                            Call("showPairingCb", "channelHash")>>
                     ELSE <<Call("setStatusCb", last.status)>>
              [] last.ev = "AttestationCheckDone" ->
                     <<Call("handleAttestationCb", last.att)>>
              [] OTHER -> <<>>

C8_Witness ==
    /\ last.op = "event"
    /\ last.valid
    /\ last.status = "Unpaired"
    /\ Len(last.cbs) = 2

Done == gdpPc \in {"returned", "thrown"}

C9_Bounded ==
    /\ requests <= 10
    /\ sleptMs <= 1000
    /\ sleptMs = 100 * (IF gdpPc = "sleep" THEN nonSingle - 1 ELSE nonSingle)
    /\ result = "Expected one BitBox02" =>
           nonSingle = 10 /\ requests = 10 /\ sleptMs = 1000
    /\ (Done /\ nonSingle = 10) => result = "Expected one BitBox02"

\* C9: one call of getDevicePath() issues at most 10 GET requests, has slept
\* 100 ms for each parsed response that did not list exactly one device (1000 ms
\* at most), throws 'Expected one BitBox02' after the 10th such response (and
\* only then), and always terminates.
C9_FixedAttemptPolling == []C9_Bounded /\ <>Done

C9_Witness ==
    /\ result = "Expected one BitBox02"
    /\ requests = 10
    /\ sleptMs = 1000

\* C10: getDevicePath() returns only when the response just parsed lists
\* exactly one device, the value is that device's path, every response parsed
\* before listed zero or several devices, and nothing more is requested.
C10_ReturnsFirstSingleDevice ==
    gdpPc = "returned" =>
        /\ Len(devices) = 1
        /\ result = devices[1].path
        /\ requests = nonSingle + 1
        /\ ~ENABLED GdpNext

C10_Witness ==
    /\ gdpPc = "returned"
    /\ nonSingle = 2
    /\ result = devices[1].path

\* The message getDevicePath() throws for a request that failed.
FetchErrorMessage(outcome) ==
    CASE outcome = "rejected" -> "BitBoxBridge not found"
      [] outcome = "403" -> "Origin not whitelisted"
      [] OTHER -> "Unexpected"

\* C11: getDevicePath() does not retry a failed request. On whichever attempt
\* fetch() rejects or the response is not ok, the call throws in that step, with
\* 'BitBoxBridge not found' for a rejected fetch, 'Origin not whitelisted' for
\* HTTP 403 and 'Unexpected' for another non-ok response; the failed request
\* was the last one: no step is possible after the throw.
C11_NoRetryOnFailedRequest ==
    /\ [][ \A outcome \in FetchOutcomes :
             (~ResponseOk(outcome) /\ GdpFetchSettles(outcome)) =>
                 /\ gdpPc' = "thrown"
                 /\ result' = FetchErrorMessage(outcome)
                 /\ requests' = requests
                 /\ requests' = nonSingle' + 1 ]_vars
    /\ [](gdpPc = "thrown" => ~ENABLED GdpNext)

C11_Witness ==
    /\ gdpPc = "thrown"
    /\ result = "Origin not whitelisted"
    /\ requests = 3
    /\ nonSingle = 2

\* C12: errors of the firmware library reach the caller of every device
\* method: once an Async* call made by the method has failed, the promise the
\* method returned is rejected, and that promise is not resolved while a call
\* made by the method is still pending.
C12_ErrorsForwarded ==
    mName # "none" =>
        \A n \in 1..Len(fwCalls) :
            /\ fwCalls[n].state = "failed" => mPromise.state = "rejected"
            /\ mPromise.state = "resolved" => fwCalls[n].state # "pending"

\* C13: ethSignTransaction and ethSignMessage reject with Error 'User abort'
\* exactly when their firmware call failed with an abort error, reject with an
\* Error carrying the Message of the firmware error for any other firmware
\* failure, and resolve, with an {r, s, v} result, only when the firmware call
\* succeeded.
C13_EthSignErrors ==
    (mName \in {"ethSignTransaction", "ethSignMessage"} /\ mPc = "done") =>
        LET called == Len(fwCalls) = 1
            failed == called /\ fwCalls[1].state = "failed"
        IN /\ mPromise = Rejected(Val("Error", "User abort", FALSE))
                  <=> (failed /\ fwCalls[1].value.abort)
           /\ (failed /\ ~fwCalls[1].value.abort) =>
                  mPromise = Rejected(Val("Error", fwCalls[1].value.msg, FALSE))
           /\ mPromise.state = "resolved" =>
                  /\ called
                  /\ fwCalls[1].state = "ok"
                  /\ mPromise.value.kind = "rsv"

C13_Witness ==
    /\ mName = "ethSignMessage"
    /\ mPc = "done"
    /\ Len(fwCalls) = 1
    /\ fwCalls[1].state = "failed"
    /\ fwCalls[1].value.abort
    /\ mPromise = Rejected(Val("Error", "User abort", FALSE))

\* C14: btcMaybeRegisterScriptConfig first asks the device whether the account
\* is registered. getName is called, and AsyncBTCRegisterScriptConfig invoked,
\* only after the device answered that it is not; the registration is invoked
\* only after getName resolved, with the name it resolved with; for a
\* registered account neither getName nor the registration is called.
C14_RegisterOnlyUnknownAccount ==
    (mName = "btcMaybeRegisterScriptConfig" /\ Len(fwCalls) >= 1) =>
        LET asked == fwCalls[1]
            unknown == asked.state = "ok" /\ asked.value.msg = "false"
        IN /\ asked.fn = "AsyncBTCIsScriptConfigRegistered"
           /\ getName.state # "none" => unknown
           /\ Len(fwCalls) <= 2
           /\ Len(fwCalls) = 2 =>
                  /\ fwCalls[2].fn = "AsyncBTCRegisterScriptConfig"
                  /\ unknown
                  /\ getName.state = "resolved"
                  /\ fwCalls[2].name = getName.name
           /\ (asked.state = "ok" /\ asked.value.msg = "true") =>
                  getName.state = "none" /\ Len(fwCalls) = 1

C14_Witness ==
    /\ mName = "btcMaybeRegisterScriptConfig"
    /\ Len(fwCalls) = 2
    /\ fwCalls[2].name = "Account B"
    /\ getName = [state |-> "resolved", name |-> "Account B"]
    /\ mPromise.state = "resolved"

DefaultOf(f) ==
    CASE f = "type" -> "0"
      [] f = "hash" -> "Uint8Array(0)"
      [] f = "keypath" -> "[]"

\* C15: the outputs array btcSignSimple and btcSignMultisig hand to the
\* firmware has as many outputs as the caller passed, in the same order; every
\* output has the fields type, hash and keypath besides the fields the caller
\* gave it, and no other; a field the caller gave keeps the caller's value, a
\* missing type, hash or keypath has its default; normalising the array once
\* more changes nothing.
C15_OutputNormalization ==
    (mName \in {"btcSignSimple", "btcSignMultisig"} /\ Len(fwCalls) = 1) =>
        LET handed == fwCalls[1].outs
        IN /\ Len(handed) = Len(outputsIn)
           /\ \A n \in 1..Len(handed) :
                  /\ DOMAIN handed[n] =
                         (DOMAIN outputsIn[n]) \cup {"type", "hash", "keypath"}
                  /\ \A f \in DOMAIN handed[n] :
                         handed[n][f] = IF f \in DOMAIN outputsIn[n]
                                        THEN outputsIn[n][f]
                                        ELSE DefaultOf(f)
           /\ setOutputDefaults(handed) = handed

C15_Witness ==
    /\ mName = "btcSignMultisig"
    /\ Len(fwCalls) = 1
    /\ Len(outputsIn) = 2
    /\ DOMAIN outputsIn[1] = {"type", "value"}
    /\ DOMAIN outputsIn[2] = {"hash"}
    /\ fwCalls[1].outs[1]["type"] = "caller"
    /\ fwCalls[1].outs[2]["type"] = "0"
====
